---- MODULE Spec2Model ----
(***************************************************************************)
(* Model of scripts/generate_app_icon.py: the icon composer reads the      *)
(* asset manifest Contents.json, derives a filename for every record,      *)
(* builds one 1024x1024 master image, writes one PNG per record and then   *)
(* rewrites the manifest.                                                  *)
(*                                                                         *)
(* Strings that the program parses (size, scale) are sequences of          *)
(* one-character strings, so that split / lower / replace / float / int    *)
(* are computed, not assumed.  Point sizes are kept in halves (w2 = 2*w),  *)
(* which is exact for every size string of the model (whole and .5 sizes). *)
(***************************************************************************)
EXTENDS Integers, Sequences, FiniteSets, TLC

\* ------------------------------------------------------------------ bounds
\* Longest manifest (number of image records) the model enumerates.
MaxRecords == 2
\* Number of consecutive runs of the program on the same directory.
MaxRuns == 2

\* --------------------------------------------------------- program constants
\* Side of the master image: gradient_bg(1024), and the px == 1024 test.
CANON == 1024
\* json.dumps(data, indent=2)
INDENT == 2

\* ------------------------------------------------------------ string helpers
DigitChars == <<"0", "1", "2", "3", "4", "5", "6", "7", "8", "9">>

IsDigit(c) == \E d \in 1..10 : DigitChars[d] = c

DigitVal(c) == (CHOOSE d \in 1..10 : DigitChars[d] = c) - 1

AllDigits(t) == t # <<>> /\ \A k \in 1..Len(t) : IsDigit(t[k])

RECURSIVE DecVal(_)
DecVal(t) ==
    IF t = <<>> THEN 0
    ELSE 10 * DecVal(SubSeq(t, 1, Len(t) - 1)) + DigitVal(t[Len(t)])

\* str.lower(): "X" is the only upper-case character of the model's alphabet.
Lower(s) == [k \in 1..Len(s) |-> IF s[k] = "X" THEN "x" ELSE s[k]]

\* str.split(sep): always at least one part; "" splits to [""].
RECURSIVE Split(_, _)
Split(s, sep) ==
    IF \E k \in 1..Len(s) : s[k] = sep
    THEN LET k == CHOOSE j \in 1..Len(s) :
                     s[j] = sep /\ \A m \in 1..(j - 1) : s[m] # sep
         IN  <<SubSeq(s, 1, k - 1)>> \o Split(SubSeq(s, k + 1, Len(s)), sep)
    ELSE <<s>>

\* str.replace('x', ''): case-sensitive removal of every "x".
StripX(s) == SelectSeq(s, LAMBDA c : c # "x")

\* float(t), in halves.  Accepts digits, "digits.", "digits.0", "digits.5",
\* ".0" and ".5"; everything else over the model's alphabet raises ValueError.
ParseFloat(t) ==
    LET parts == Split(t, ".")
        ip    == parts[1]
        fp    == IF Len(parts) = 2 THEN parts[2] ELSE <<>>
        ipOk  == ip = <<>> \/ AllDigits(ip)
        fpOk  == fp \in {<<>>, <<"0">>, <<"5">>}
        ok    == /\ Len(parts) \in {1, 2}
                 /\ ipOk /\ fpOk
                 /\ (ip # <<>> \/ fp # <<>>)
    IN  [ok |-> ok,
         v2 |-> IF ok THEN 2 * DecVal(ip) + (IF fp = <<"5">> THEN 1 ELSE 0)
                ELSE 0]

\* int(t) of a string: decimal digits only over the model's alphabet.
ParseInt(t) == [ok |-> AllDigits(t), v |-> IF AllDigits(t) THEN DecVal(t) ELSE 0]

\* str(n) for n >= 0, as f-strings format an int.
RECURSIVE IntToStr(_)
IntToStr(n) ==
    IF n < 10 THEN <<DigitChars[n + 1]>>
    ELSE IntToStr(n \div 10) \o <<DigitChars[(n % 10) + 1]>>

\* ------------------------------------------------------------- parse_size
\* w, h = size_str.lower().split('x'); return float(w), float(h)
parse_size(size_str) ==
    LET parts == Split(Lower(size_str), "x")
        w     == IF Len(parts) = 2 THEN ParseFloat(parts[1]) ELSE [ok |-> FALSE, v2 |-> 0]
        h     == IF Len(parts) = 2 THEN ParseFloat(parts[2]) ELSE [ok |-> FALSE, v2 |-> 0]
    IN  [ok |-> Len(parts) = 2 /\ w.ok /\ h.ok, w2 |-> w.v2, h2 |-> h.v2]

\* int(scale.replace('x', ''))
parse_scale(scale) == ParseInt(StripX(scale))

\* int(w) of a non-negative float held in halves: truncation.
IntPart(w2) == w2 \div 2

\* Faulty variant: int(w_pt * sc), truncation without round().
PxTrunc(w2, sc) == (w2 * sc) \div 2

\* int(round(w_pt * sc)): Python rounds a tie to the even neighbour.
Px(w2, sc) ==
    LET p2 == w2 * sc
        lo == p2 \div 2
    IN  IF p2 % 2 = 0 THEN lo
        ELSE IF lo % 2 = 0 THEN lo ELSE lo + 1

\* ------------------------------------------------------------------ images
\* A raster is known by its dimensions only.
NoImage == [w |-> 0, h |-> 0]

\* composed: gradient_bg(1024), glyph and shadow layers of (1024, 1024),
\* alpha-composited; every layer has the canonical size.
master_image == [w |-> CANON, h |-> CANON]

\* Faulty variant: a resize that changes the receiver, as Image.thumbnail does.
resize_inplace(img, px) ==
    [out |-> [w |-> px, h |-> px], self |-> [w |-> px, h |-> px]]

\* Image.resize((px, px), LANCZOS): returns a new image (out) and leaves the
\* receiver (self) as it was.
resize(img, px) == [out |-> [w |-> px, h |-> px], self |-> img]

\* -------------------------------------------------------------- filenames
AppStoreName == <<"Icon-AppStore-1024.png">>

\* f'Icon-{int(w)}@{sc}x.png'
IconName(w2, sc) ==
    <<"Icon-">> \o IntToStr(IntPart(w2)) \o <<"@">> \o IntToStr(sc) \o <<"x.png">>

\* entry.get(k) is truthy: the key is present and its string is not empty.
Truthy(e, k) == k \in DOMAIN e /\ e[k] # <<>>

IsMarketing(e) == "idiom" \in DOMAIN e /\ e["idiom"] = "ios-marketing"

WithFilename(e, name) ==
    [k \in DOMAIN e \cup {"filename"} |-> IF k = "filename" THEN name ELSE e[k]]

DerivedName(e) ==
    IF IsMarketing(e) THEN AppStoreName
    ELSE IconName(parse_size(e["size"]).w2, parse_scale(e["scale"]).v)

\* Faulty variants of the loop body of ensure_filenames: one that raises on a
\* missing field, one that rebuilds the record from the known fields, one that
\* keeps a filename already present, one that renames on every run.
EnsureEntryStrict(e) ==
    IF "size" \notin DOMAIN e \/ "scale" \notin DOMAIN e
    THEN [ok |-> FALSE, entry |-> e]
    ELSE IF ~parse_size(e["size"]).ok \/ ~parse_scale(e["scale"]).ok
    THEN [ok |-> FALSE, entry |-> e]
    ELSE [ok |-> TRUE, entry |-> WithFilename(e, DerivedName(e))]

EnsureEntryKnownFields(e) ==
    IF ~Truthy(e, "size") \/ ~Truthy(e, "scale")
    THEN [ok |-> TRUE, entry |-> e]
    ELSE IF ~parse_size(e["size"]).ok \/ ~parse_scale(e["scale"]).ok
    THEN [ok |-> FALSE, entry |-> e]
    ELSE [ok |-> TRUE,
          entry |-> [k \in (DOMAIN e \cap {"size", "scale", "idiom"}) \cup {"filename"} |->
                        IF k = "filename" THEN DerivedName(e) ELSE e[k]]]

EnsureEntryKeepExisting(e) ==
    IF ~Truthy(e, "size") \/ ~Truthy(e, "scale") \/ Truthy(e, "filename")
    THEN [ok |-> TRUE, entry |-> e]
    ELSE IF ~parse_size(e["size"]).ok \/ ~parse_scale(e["scale"]).ok
    THEN [ok |-> FALSE, entry |-> e]
    ELSE [ok |-> TRUE, entry |-> WithFilename(e, DerivedName(e))]

EnsureEntryBackup(e) ==
    IF ~Truthy(e, "size") \/ ~Truthy(e, "scale")
    THEN [ok |-> TRUE, entry |-> e]
    ELSE IF ~parse_size(e["size"]).ok \/ ~parse_scale(e["scale"]).ok
    THEN [ok |-> FALSE, entry |-> e]
    ELSE [ok |-> TRUE,
          entry |-> WithFilename(e, IF Truthy(e, "filename")
                                    THEN <<"New-">> \o DerivedName(e)
                                    ELSE DerivedName(e))]

\* One iteration of the loop of ensure_filenames: ok = FALSE when parse_size
\* or int() raises.
EnsureEntry(e) ==
    IF ~Truthy(e, "size") \/ ~Truthy(e, "scale")
    THEN [ok |-> TRUE, entry |-> e]
    ELSE IF ~parse_size(e["size"]).ok \/ ~parse_scale(e["scale"]).ok
    THEN [ok |-> FALSE, entry |-> e]
    ELSE [ok |-> TRUE, entry |-> WithFilename(e, DerivedName(e))]

\* ensure_filenames(images): at = index of the record at which it raises.
ensure_filenames(images) ==
    LET r   == [k \in 1..Len(images) |-> EnsureEntry(images[k])]
        bad == {k \in 1..Len(images) : ~r[k].ok}
    IN  [ok     |-> bad = {},
         at     |-> IF bad = {} THEN 0 ELSE CHOOSE k \in bad : \A m \in bad : k <= m,
         images |-> [k \in 1..Len(images) |-> r[k].entry]]

\* ------------------------------------------------------------------- JSON
\* A file is its layout (indent) and the document it encodes; valid = FALSE
\* is text that json.loads rejects.
json_loads(file) == [ok |-> file.valid, data |-> file.doc]

json_dumps(data) == [indent |-> INDENT, valid |-> TRUE, doc |-> data]

\* data.get('images', [])
Images(d) == IF "images" \in DOMAIN d THEN d["images"] ELSE <<>>

\* The in-place mutation of the entries shows in data when data holds the list.
WithImages(d, imgs) ==
    IF "images" \in DOMAIN d THEN [d EXCEPT !["images"] = imgs] ELSE d

\* ----------------------------------------------------------------- inputs
\* Size and scale strings a record of Contents.json may carry.
S_20      == <<"2", "0", "x", "2", "0">>
S_20_5    == <<"2", "0", ".", "5", "x", "2", "0", ".", "5">>
S_83_5    == <<"8", "3", ".", "5", "x", "8", "3", ".", "5">>
S_83      == <<"8", "3", "x", "8", "3">>
S_1024    == <<"1", "0", "2", "4", "x", "1", "0", "2", "4">>
S_512     == <<"5", "1", "2", "x", "5", "1", "2">>
S_20Upper == <<"2", "0", "X", "2", "0">>
S_NoX     == <<"2", "0">>
S_Zero    == <<"0", "x", "0">>
S_Empty   == <<>>
X1        == <<"1", "x">>
X2        == <<"2", "x">>
X2Bare    == <<"2">>
X2Upper   == <<"2", "X">>
OldName   == <<"Old.png">>

\* Records of the manifest: well-formed ones, records that lack a field,
\* records with an unknown field or a stale filename, malformed ones.
RecordPool ==
    { [size |-> S_20, scale |-> X2, idiom |-> "iphone"],
      [size |-> S_20, scale |-> X2, idiom |-> "ipad", filename |-> OldName],
      [size |-> S_20_5, scale |-> X1, idiom |-> "iphone"],
      [size |-> S_83_5, scale |-> X1, idiom |-> "ipad", role |-> "pro"],
      [size |-> S_83, scale |-> X1, idiom |-> "ipad"],
      [size |-> S_1024, scale |-> X1, idiom |-> "ios-marketing"],
      [size |-> S_512, scale |-> X2, idiom |-> "ios-marketing"],
      [size |-> S_20Upper, scale |-> X1],
      [size |-> S_20, idiom |-> "iphone"],
      [scale |-> X2, idiom |-> "ipad", filename |-> OldName, role |-> "pro"],
      [size |-> S_Empty, scale |-> X2, idiom |-> "iphone"],
      [size |-> S_NoX, scale |-> X2, idiom |-> "iphone"],
      [size |-> S_20, scale |-> X2Upper, idiom |-> "iphone"],
      [size |-> S_20, scale |-> X2Bare, idiom |-> "mac"],
      [size |-> S_Zero, scale |-> X1, idiom |-> "iphone"] }

RECURSIVE SeqsUpTo(_, _)
SeqsUpTo(S, n) ==
    IF n = 0 THEN {<<>>}
    ELSE LET shorter == SeqsUpTo(S, n - 1)
         IN  shorter \cup {Append(q, r) : q \in shorter, r \in S}

\* Documents Contents.json may hold: with the images list, with a top-level
\* field the program does not read, and without the images key.
Documents ==
    {[images |-> q, info |-> "xcode"] : q \in SeqsUpTo(RecordPool, MaxRecords)}
    \cup {[images |-> q, info |-> "xcode", properties |-> "pre-rendered"] :
              q \in SeqsUpTo(RecordPool, 1)}
    \cup {[info |-> "xcode"]}

ManifestFiles ==
    {[indent |-> 0, valid |-> TRUE, doc |-> d] : d \in Documents}
    \cup {[indent |-> 0, valid |-> FALSE, doc |-> [info |-> "xcode"]]}

\* ------------------------------------------------------------------- state
VARIABLES
    pc,            \* position of the process in main / generate_from_contents
    run,           \* number of the current invocation of the program
    dirExists,     \* ASSET_DIR exists
    contentsFile,  \* CONTENTS_PATH: <<>> when absent, else <<file>>
    files,         \* PNG files of ASSET_DIR: name -> image
    data,          \* the parsed manifest held in memory
    i,             \* index of the record the write loop is at
    composed,      \* the master image
    err,           \* the exception that ended the run, "" if none
    errAt,         \* index of the record at which it was raised, 0 if none
    trace,         \* effects of the current run, in order
    dir0,          \* dirExists when the run started
    contents0,     \* contentsFile when the run started
    files0,        \* files when the run started
    prev           \* outcome of the previous successful run

vars == <<pc, run, dirExists, contentsFile, files, data, i, composed, err, errAt,
          trace, dir0, contents0, files0, prev>>

Ev(op, idx, name, img, src) ==
    [op |-> op, idx |-> idx, name |-> name, w |-> img.w, h |-> img.h, src |-> src]

NoFiles == [n \in {} |-> NoImage]

NoData == [info |-> "unread"]

SavedNames(t) == {t[k].name : k \in {m \in 1..Len(t) : t[m].op = "save"}}

Init ==
    /\ pc = "main"
    /\ run = 1
    /\ dirExists \in BOOLEAN
    /\ contentsFile \in {<<>>} \cup (IF dirExists THEN {<<f>> : f \in ManifestFiles} ELSE {})
    /\ files = NoFiles
    /\ data = NoData
    /\ i = 0
    /\ composed = NoImage
    /\ err = ""
    /\ errAt = 0
    /\ trace = <<>>
    /\ dir0 = dirExists
    /\ contents0 = contentsFile
    /\ files0 = files
    /\ prev = [contents |-> <<>>, names |-> {}]

\* ----------------------------------------------------------------- actions
Fail(e, at) ==
    /\ pc' = "failed"
    /\ err' = e
    /\ errAt' = at

\* main: ASSET_DIR.mkdir(parents=True, exist_ok=True)
MkDir ==
    /\ pc = "main"
    /\ dirExists' = TRUE
    /\ pc' = "check"
    /\ UNCHANGED <<run, contentsFile, files, data, i, composed, err, errAt, trace,
                   dir0, contents0, files0, prev>>

\* A variant that repairs a missing manifest instead of only reporting it.
MissingManifestCreates ==
    /\ pc = "check"
    /\ contentsFile = <<>>
    /\ Fail("MissingManifest", 0)
    /\ contentsFile' = <<json_dumps([images |-> <<>>])>>
    /\ UNCHANGED <<run, dirExists, files, data, i, composed, trace,
                   dir0, contents0, files0, prev>>

\* if not CONTENTS_PATH.exists(): raise SystemExit(...)
MissingManifest ==
    /\ pc = "check"
    /\ contentsFile = <<>>
    /\ Fail("MissingManifest", 0)
    /\ UNCHANGED <<run, dirExists, contentsFile, files, data, i, composed, trace,
                   dir0, contents0, files0, prev>>

\* data = json.loads(CONTENTS_PATH.read_text()); images = data.get('images', [])
LoadManifest ==
    /\ pc = "check"
    /\ contentsFile # <<>>
    /\ json_loads(contentsFile[1]).ok
    /\ data' = json_loads(contentsFile[1]).data
    /\ trace' = Append(trace, Ev("read", 0, <<>>, NoImage, "none"))
    /\ pc' = "ensure"
    /\ UNCHANGED <<run, dirExists, contentsFile, files, i, composed, err, errAt,
                   dir0, contents0, files0, prev>>

\* json.loads raises JSONDecodeError.
LoadFails ==
    /\ pc = "check"
    /\ contentsFile # <<>>
    /\ ~json_loads(contentsFile[1]).ok
    /\ Fail("JSONDecodeError", 0)
    /\ trace' = Append(trace, Ev("read", 0, <<>>, NoImage, "none"))
    /\ UNCHANGED <<run, dirExists, contentsFile, files, data, i, composed,
                   dir0, contents0, files0, prev>>

\* ensure_filenames(images): every record is visited before anything is drawn.
EnsureFilenames ==
    /\ pc = "ensure"
    /\ LET r == ensure_filenames(Images(data))
       IN  IF r.ok
           THEN /\ data' = WithImages(data, r.images)
                /\ pc' = "build"
                /\ UNCHANGED <<err, errAt>>
           ELSE /\ Fail("ValueError", r.at)
                /\ UNCHANGED data
    /\ UNCHANGED <<run, dirExists, contentsFile, files, i, composed, trace,
                   dir0, contents0, files0, prev>>

\* base = gradient_bg(1024) ... composed = Image.alpha_composite(composed, glyph)
BuildMaster ==
    /\ pc = "build"
    /\ composed' = master_image
    /\ trace' = Append(trace, Ev("build", 0, <<>>, master_image, "none"))
    /\ i' = 1
    /\ pc' = "loop"
    /\ UNCHANGED <<run, dirExists, contentsFile, files, data, err, errAt,
                   dir0, contents0, files0, prev>>

InLoop == pc = "loop" /\ i <= Len(Images(data))

Entry == Images(data)[i]

Skipped(e) == ~Truthy(e, "size") \/ ~Truthy(e, "scale") \/ ~Truthy(e, "filename")

\* px = int(round(w_pt * sc))
EntryPx(e) == Px(parse_size(e["size"]).w2, parse_scale(e["scale"]).v)

\* if not size or not scale or not fname: continue
SkipEntry ==
    /\ InLoop
    /\ Skipped(Entry)
    /\ i' = i + 1
    /\ UNCHANGED <<pc, run, dirExists, contentsFile, files, data, composed, err, errAt,
                   trace, dir0, contents0, files0, prev>>

\* composed.resize((px, px), ...) raises ValueError for a side below 1.
ResizeFails ==
    /\ InLoop
    /\ ~Skipped(Entry)
    /\ EntryPx(Entry) # CANON
    /\ EntryPx(Entry) < 1
    /\ Fail("ValueError", i)
    /\ UNCHANGED <<run, dirExists, contentsFile, files, data, i, composed, trace,
                   dir0, contents0, files0, prev>>

\* target = composed if px == 1024 else composed.resize((px, px), LANCZOS);
\* target.save(ASSET_DIR / fname, format='PNG')
SaveEntry ==
    /\ InLoop
    /\ ~Skipped(Entry)
    /\ LET px  == EntryPx(Entry)
           rz  == resize(composed, px)
           tgt == IF px = CANON THEN composed ELSE rz.out
           src == IF px = CANON THEN "master" ELSE "copy"
       IN  /\ px = CANON \/ px >= 1
           /\ composed' = IF px = CANON THEN composed ELSE rz.self
           /\ files' = (Entry["filename"] :> tgt) @@ files
           /\ trace' = Append(trace, Ev("save", i, Entry["filename"], tgt, src))
    /\ i' = i + 1
    /\ UNCHANGED <<pc, run, dirExists, contentsFile, data, err, errAt,
                   dir0, contents0, files0, prev>>

\* target.save raises OSError: the file is untouched (open failed) or is left
\* truncated (the write failed after the file was opened).
SaveFails ==
    /\ InLoop
    /\ ~Skipped(Entry)
    /\ EntryPx(Entry) = CANON \/ EntryPx(Entry) >= 1
    /\ \E opened \in BOOLEAN :
          files' = IF opened THEN (Entry["filename"] :> NoImage) @@ files ELSE files
    /\ Fail("OSError", i)
    /\ UNCHANGED <<run, dirExists, contentsFile, data, i, composed, trace,
                   dir0, contents0, files0, prev>>

\* A variant with the manifest write inside the loop over the records.
WriteManifestInLoop ==
    /\ pc = "loop"
    /\ contentsFile' = <<json_dumps(data)>>
    /\ trace' = Append(trace, Ev("manifest", 0, <<>>, NoImage, "none"))
    /\ pc' = IF i > Len(Images(data)) THEN "print" ELSE "loop"
    /\ i' = IF i > Len(Images(data)) THEN i ELSE i + 1
    /\ UNCHANGED <<run, dirExists, files, data, composed, err, errAt,
                   dir0, contents0, files0, prev>>

\* CONTENTS_PATH.write_text(json.dumps(data, indent=2)), after the loop.
WriteManifest ==
    /\ pc = "loop"
    /\ i > Len(Images(data))
    /\ contentsFile' = <<json_dumps(data)>>
    /\ trace' = Append(trace, Ev("manifest", 0, <<>>, NoImage, "none"))
    /\ pc' = "print"
    /\ UNCHANGED <<run, dirExists, files, data, i, composed, err, errAt,
                   dir0, contents0, files0, prev>>

\* print(f"App icons generated in {ASSET_DIR}"): no effect on the file system.
PrintDone ==
    /\ pc = "print"
    /\ pc' = "done"
    /\ UNCHANGED <<run, dirExists, contentsFile, files, data, i, composed, err, errAt,
                   trace, dir0, contents0, files0, prev>>

\* The script is invoked again on the directory a successful run left.
Rerun ==
    /\ pc = "done"
    /\ run < MaxRuns
    /\ run' = run + 1
    /\ pc' = "main"
    /\ prev' = [contents |-> contentsFile, names |-> SavedNames(trace)]
    /\ data' = NoData
    /\ i' = 0
    /\ composed' = NoImage
    /\ trace' = <<>>
    /\ dir0' = dirExists
    /\ contents0' = contentsFile
    /\ files0' = files
    /\ UNCHANGED <<dirExists, contentsFile, files, err, errAt>>

Next ==
    \/ MkDir
    \/ MissingManifest
    \/ LoadManifest
    \/ LoadFails
    \/ EnsureFilenames
    \/ BuildMaster
    \/ SkipEntry
    \/ ResizeFails
    \/ SaveEntry
    \/ SaveFails
    \/ WriteManifest
    \/ PrintDone
    \/ Rerun

Spec == Init /\ [][Next]_vars

\* ------------------------------------------------- vocabulary of the claims
\* The records of the manifest as the current run found them on disk.
Input == IF contents0 = <<>> THEN <<>> ELSE Images(contents0[1].doc)

\* The records of the manifest now on disk.
Output == IF contentsFile = <<>> THEN <<>> ELSE Images(contentsFile[1].doc)

Saves(idx) == {k \in 1..Len(trace) : trace[k].op = "save" /\ trace[k].idx = idx}

LacksField(e) == "size" \notin DOMAIN e \/ "scale" \notin DOMAIN e

\* "Nx": one or more digits followed by a single x.
ScaleForm(t) == Len(t) >= 2 /\ t[Len(t)] = "x" /\ AllDigits(SubSeq(t, 1, Len(t) - 1))

\* Twice the product size.width * scale of a record with both fields.
Twice(e) == parse_size(e["size"]).w2 * parse_scale(e["scale"]).v

\* A record with size "WxH", scale "Nx" and a positive pixel dimension.
ValidRecord(e) ==
    /\ ~LacksField(e)
    /\ parse_size(e["size"]).ok
    /\ ScaleForm(e["scale"])
    /\ Twice(e) >= 1

\* A size or scale that is present but malformed, or a pixel dimension that
\* is not a positive integer.
MalformedRecord(e) ==
    \/ "size" \in DOMAIN e /\ ~parse_size(e["size"]).ok
    \/ "scale" \in DOMAIN e /\ ~ScaleForm(e["scale"])
    \/ /\ ~LacksField(e)
       /\ parse_size(e["size"]).ok
       /\ ScaleForm(e["scale"])
       /\ (Twice(e) < 2 \/ Twice(e) % 2 # 0)

IdiomOf(e) == IF "idiom" \in DOMAIN e THEN e["idiom"] ELSE "None"

\* ---------------------------------------------------------------------- C1
\* C1 (as claimed): two distinct records with valid size and scale never get
\* the same derived filename, and no two image writes of one run target the
\* same path.
C1_CollisionFree ==
    /\ pc \in {"build", "loop", "print", "done"} =>
          \A a, b \in 1..Len(Input) :
              ( /\ a # b
                /\ Input[a] # Input[b]
                /\ ValidRecord(Input[a])
                /\ ValidRecord(Input[b]) )
              => Images(data)[a]["filename"] # Images(data)[b]["filename"]
    /\ \A a, b \in 1..Len(trace) :
          (a # b /\ trace[a].op = "save" /\ trace[b].op = "save")
          => trace[a].name # trace[b].name

\* ---------------------------------------------------------------------- C2
\* C2 (as claimed): when the manifest is absent the run aborts and leaves the
\* file system exactly as it was: directory, manifest and image files.
C2_NothingChanged ==
    err = "MissingManifest" =>
        /\ dirExists = dir0
        /\ contentsFile = contents0
        /\ files = files0

\* C2 (amended): when the manifest is absent the run aborts with the
\* missing-manifest error, writes no image file and creates no manifest; the
\* asset directory exists afterwards (main creates it before the check).
C2_NoFileWritten ==
    err = "MissingManifest" =>
        /\ pc = "failed"
        /\ contents0 = <<>>
        /\ contentsFile = <<>>
        /\ files = files0
        /\ trace = <<>>
        /\ dirExists

C2_Witness == err = "MissingManifest" /\ ~dir0 /\ dirExists /\ files = NoFiles

\* ---------------------------------------------------------------------- C3
\* C3: the manifest on disk is the one the run started with until every
\* image write has succeeded; in particular it is unchanged in every failed
\* run, whatever the step that failed.
C3_ManifestIntactUntilEnd ==
    pc \notin {"print", "done"} => contentsFile = contents0

C3_Witness ==
    /\ pc = "failed"
    /\ err = "OSError"
    /\ errAt >= 2
    /\ \E k \in 1..Len(trace) : trace[k].op = "save"
    /\ contentsFile = contents0

\* ---------------------------------------------------------------------- C4
\* C4: a record that lacks size or scale is never the record at which a run
\* aborts; after a successful run it is unchanged in the manifest and no file
\* was written for it, and every valid record has its filename and its file.
C4_LenientSkip ==
    /\ (pc = "failed" /\ errAt # 0) => ~LacksField(Input[errAt])
    /\ (pc = "failed" /\ errAt = 0) => err \in {"MissingManifest", "JSONDecodeError"}
    /\ pc = "done" =>
          \A k \in 1..Len(Input) :
              /\ LacksField(Input[k]) =>
                    (Output[k] = Input[k] /\ Saves(k) = {})
              /\ ValidRecord(Input[k]) =>
                    /\ "filename" \in DOMAIN Output[k]
                    /\ Output[k]["filename"] \in DOMAIN files
                    /\ \E s \in Saves(k) : trace[s].name = Output[k]["filename"]

C4_Witness ==
    /\ pc = "done"
    /\ Len(Input) >= 2
    /\ "scale" \notin DOMAIN Input[1]
    /\ "filename" \notin DOMAIN Output[1]
    /\ ValidRecord(Input[2])
    /\ Saves(2) # {}
    /\ Saves(1) = {}

\* ---------------------------------------------------------------------- C5
\* C5 (as claimed): if any record has a present but malformed size or scale,
\* or a pixel dimension that is not a positive integer, the run aborts, no
\* image file is written for any record and the manifest is not rewritten.
C5_MalformedAbortsCleanly ==
    (\E k \in 1..Len(Input) : MalformedRecord(Input[k])) =>
        /\ pc \notin {"print", "done"}
        /\ files = files0
        /\ contentsFile = contents0
        /\ \A k \in 1..Len(trace) : trace[k].op # "save"

\* ---------------------------------------------------------------------- C6
\* C6: after a successful run the manifest has the same top-level fields with
\* the same values, the same number of records in the same order, and every
\* record has its fields other than filename, unchanged, and no other field.
C6_OnlyFilenamesChange ==
    pc = "done" =>
        LET old == contents0[1].doc
            new == contentsFile[1].doc
        IN  /\ DOMAIN new = DOMAIN old
            /\ \A f \in DOMAIN old \ {"images"} : new[f] = old[f]
            /\ Len(Images(new)) = Len(Images(old))
            /\ \A k \in 1..Len(Images(old)) :
                  /\ DOMAIN Images(new)[k] \ {"filename"} = DOMAIN Images(old)[k] \ {"filename"}
                  /\ \A f \in DOMAIN Images(old)[k] \ {"filename"} :
                        Images(new)[k][f] = Images(old)[k][f]

C6_Witness ==
    /\ pc = "done"
    /\ "properties" \in DOMAIN contentsFile[1].doc
    /\ \E k \in 1..Len(Input) :
          /\ "role" \in DOMAIN Input[k]
          /\ "role" \in DOMAIN Output[k]
          /\ "filename" \notin DOMAIN Input[k]
          /\ "filename" \in DOMAIN Output[k]

\* ---------------------------------------------------------------------- C7
\* C7: every image written is square and its side is the integer nearest to
\* size.width * scale (the even one when two are equally near), whatever the
\* idiom and the filename of the record.
C7_SquareRounded ==
    \A k \in 1..Len(trace) :
        trace[k].op = "save" =>
            LET p2 == Twice(Images(data)[trace[k].idx])
            IN  /\ trace[k].w = trace[k].h
                /\ 2 * trace[k].w - p2 \in -1..1
                /\ (2 * trace[k].w # p2) => trace[k].w % 2 = 0

C7_Witness ==
    \E k, m \in 1..Len(trace) :
        /\ trace[k].op = "save"
        /\ trace[m].op = "save"
        /\ Twice(Images(data)[trace[k].idx]) % 2 = 1
        /\ 2 * trace[k].w > Twice(Images(data)[trace[k].idx])
        /\ Twice(Images(data)[trace[m].idx]) % 2 = 1
        /\ 2 * trace[m].w < Twice(Images(data)[trace[m].idx])

\* ---------------------------------------------------------------------- C8
\* C8: after a successful run every record with size and scale carries the
\* reserved App Store name if its idiom is ios-marketing, and otherwise the
\* name Icon-<int(width)>@<scale>x.png; records that agree on size, scale and
\* idiom carry the same name, and a file of that name exists.
NameMatches(name, e) ==
    IF IsMarketing(e) THEN name = <<"Icon-AppStore-1024.png">>
    ELSE /\ Len(name) >= 5
         /\ name[1] = "Icon-"
         /\ name[Len(name)] = "x.png"
         /\ \E at \in 3..(Len(name) - 2) :
               /\ name[at] = "@"
               /\ ParseInt(SubSeq(name, 2, at - 1)) =
                     [ok |-> TRUE, v |-> parse_size(e["size"]).w2 \div 2]
               /\ ParseInt(SubSeq(name, at + 1, Len(name) - 1)) =
                     [ok |-> TRUE, v |-> parse_scale(e["scale"]).v]

C8_NameRule ==
    pc = "done" =>
        \A k \in 1..Len(Input) :
            (Truthy(Input[k], "size") /\ Truthy(Input[k], "scale")) =>
                /\ "filename" \in DOMAIN Output[k]
                /\ NameMatches(Output[k]["filename"], Input[k])
                /\ Output[k]["filename"] \in DOMAIN files
                /\ \A m \in 1..Len(Input) :
                      ( /\ Truthy(Input[m], "size") /\ Truthy(Input[m], "scale")
                        /\ Input[m]["size"] = Input[k]["size"]
                        /\ Input[m]["scale"] = Input[k]["scale"]
                        /\ IdiomOf(Input[m]) = IdiomOf(Input[k]) )
                      => Output[m]["filename"] = Output[k]["filename"]

C8_Witness ==
    /\ pc = "done"
    /\ \E k, m \in 1..Len(Input) :
          /\ IsMarketing(Input[k])
          /\ Output[k]["filename"] = AppStoreName
          /\ ~IsMarketing(Input[m])
          /\ Truthy(Input[m], "filename")
          /\ Truthy(Input[m], "size") /\ Truthy(Input[m], "scale")
          /\ Output[m]["filename"] # Input[m]["filename"]

\* ---------------------------------------------------------------------- C9
\* C9: the effects of a run come in the order read, build, saves, manifest
\* write; read, build and manifest write happen at most once; once built the
\* master stays 1024x1024; a record is written from the master itself exactly
\* when its pixel dimension is 1024; nothing follows the manifest write.
Rank(op) ==
    IF op = "read" THEN 1 ELSE IF op = "build" THEN 2 ELSE IF op = "save" THEN 3 ELSE 4

Has(op, upTo) == \E k \in 1..upTo : trace[k].op = op

C9_PipelineOrder ==
    /\ \A a, b \in 1..Len(trace) :
          a < b => /\ Rank(trace[a].op) <= Rank(trace[b].op)
                   /\ Rank(trace[a].op) = Rank(trace[b].op) => trace[b].op = "save"
    /\ \A k \in 1..Len(trace) :
          /\ trace[k].op = "build" => Has("read", k - 1)
          /\ trace[k].op \in {"save", "manifest"} => Has("build", k - 1)
          /\ trace[k].op = "save" =>
                /\ (trace[k].src = "master") <=>
                      (Twice(Images(data)[trace[k].idx]) \in (2 * CANON - 1)..(2 * CANON + 1))
                /\ trace[k].src = "master" => (trace[k].w = CANON /\ trace[k].h = CANON)
                /\ trace[k].src \in {"master", "copy"}
    /\ Has("build", Len(trace)) => composed = [w |-> CANON, h |-> CANON]
    /\ ~Has("build", Len(trace)) => composed = NoImage
    /\ pc \in {"print", "done"} => trace[Len(trace)].op = "manifest"
    /\ Has("manifest", Len(trace)) => pc \in {"print", "done"}

C9_Witness ==
    /\ pc = "done"
    /\ \E a, b \in 1..Len(trace) :
          /\ a < b
          /\ trace[a].op = "save" /\ trace[a].src = "copy"
          /\ trace[b].op = "save" /\ trace[b].src = "master"

\* --------------------------------------------------------------------- C10
\* C10: a successful run on the directory left by a successful run leaves the
\* manifest as it found it and writes the same set of file names, so that the
\* directory holds the same file names as before.
C10_Idempotent ==
    (run >= 2 /\ pc = "done") =>
        /\ contentsFile = prev.contents
        /\ contentsFile = contents0
        /\ SavedNames(trace) = prev.names
        /\ DOMAIN files = DOMAIN files0

C10_Witness ==
    /\ run >= 2
    /\ pc = "done"
    /\ prev.names # {}
    /\ \E k \in 1..Len(Input) : LacksField(Input[k])

====
